---- MODULE Spec2Model ----
(***************************************************************************)
(* Model of unet.py: construction of the U-Net (channel configuration,     *)
(* parameter initialisation, freezing), the shape arithmetic of its        *)
(* forward pass, and the averaging ensemble.                               *)
(*                                                                         *)
(* Tensors are modelled by their shape (batch, channels, height, width);   *)
(* parameters by the initialiser that last wrote them.  Python list        *)
(* objects live in a heap (lists) so that aliasing of the class-level      *)
(* default filters and of the registry's lists is visible.                 *)
(***************************************************************************)
EXTENDS Integers, Sequences, FiniteSets, TLC

VARIABLES lists, backbones, UNet_filters, models, encs, call, fwd, ensemble, ens

vars == <<lists, backbones, UNet_filters, models, encs, call, fwd, ensemble, ens>>

(***************************************************************************)
(* Bounds                                                                  *)
(***************************************************************************)
MaxModels == 2
MaxEncs == 1
MaxMult == 4
MaxK == 3

(***************************************************************************)
(* Program constants                                                       *)
(***************************************************************************)
None == "None"
kernel_size == 3
padding == 1

\* unet.py:191  UNet.filters, and the two sequences of the registry
DefaultFilters == <<64, 128, 256, 512, 1024>>
WideFilters == <<64, 256, 512, 1024, 2048>>

BackboneNames == {"resnet18", "resnet34", "resnet50", "resnet101", "resnet152"}
UnknownName == "vgg16"
BackboneArgs == BackboneNames \cup {None, UnknownName}

\* heap: the list objects created at import time, named by where they are bound
ClassList == "UNet.filters"
ListIds == {ClassList} \cup BackboneNames

\* unet.py:10-16 contents of the registry's lists
RegistryFilters ==
  [n \in BackboneNames |->
     IF n \in {"resnet18", "resnet34"} THEN DefaultFilters ELSE WideFilters]

InitialHeap ==
  [i \in ListIds |-> IF i = ClassList THEN DefaultFilters ELSE RegistryFilters[i]]

ChannelChoices == {1, 3}
ClassChoices == {1, 2}

(***************************************************************************)
(* utils.operate: conditional selector (both branches already evaluated)   *)
(***************************************************************************)
operate(cond, a, b) == IF cond THEN a ELSE b

norm_layer(norm) == operate(norm = None, "BatchNorm2d", norm)

(***************************************************************************)
(* Channel configuration built by the constructors                         *)
(***************************************************************************)
\* Python negative / 0-based index into a 1-based sequence
At(s, i) == IF i < 0 THEN s[Len(s) + 1 + i] ELSE s[i + 1]

DoubleConv2d_init(in_channels, out_channels) ==
  [in |-> in_channels, out |-> out_channels]

EncoderBlock_init(in_channels, out_channels) ==
  [conv |-> DoubleConv2d_init(in_channels, out_channels)]

\* up_in_channels / up_out_channels = 0 stands for Python None
DecoderBlock_init(in_channels, out_channels, up_in_channels, up_out_channels) ==
  [up_in  |-> IF up_in_channels = 0 THEN in_channels ELSE up_in_channels,
   up_out |-> IF up_out_channels = 0 THEN out_channels ELSE up_out_channels,
   conv   |-> DoubleConv2d_init(in_channels, out_channels)]

RECURSIVE PlainEncoderChain(_, _, _)
\* for out_channels in filters[:-1]: append(EncoderBlock(in_channels, out_channels))
PlainEncoderChain(in_channels, filters, k) ==
  IF k > Len(filters) - 1 THEN <<>>
  ELSE <<EncoderBlock_init(in_channels, filters[k])>>
         \o PlainEncoderChain(filters[k], filters, k + 1)

\* unet.py:116-123  plain branch, or backbones[backbone], which raises KeyError
\* for a name that is not a key
EncoderBlocks_modeFallback(reg, backbone) ==
  IF backbone \in DOMAIN reg THEN "backbone" ELSE "plain"

EncoderBlocks_mode(reg, backbone) ==
  IF backbone = None THEN "plain"
  ELSE IF backbone \in DOMAIN reg THEN "backbone" ELSE "KeyError"

\* the list object self.filters of the encoder stack is bound to
EncoderKeepsFilters(reg, filters, backbone) == filters

EncoderBlocks_filters(reg, filters, backbone) ==
  IF EncoderBlocks_mode(reg, backbone) = "backbone" THEN reg[backbone] ELSE filters

DecoderBlocks_init(filters, backbone) ==
  [i \in 1..(Len(filters) - 1) |->
     DecoderBlock_init(At(filters, -1 - (i - 1)), At(filters, -2 - (i - 1)), 0, 0)]
  \o (IF backbone # None
      THEN <<DecoderBlock_init(filters[2], filters[1], filters[1], filters[1])>>
      ELSE <<>>)

OutHead_init(filters, num_classes) ==
  [tin |-> filters[1], tout |-> filters[1], cin |-> filters[1], cout |-> num_classes]

(***************************************************************************)
(* Parameter-owning modules.  A parameter is modelled by the initialiser   *)
(* that last wrote it: "uniform" / "kaiming_uniform" are the framework's   *)
(* random defaults of a convolution, "1" / "0" constants, "kaiming_normal" *)
(* the U-Net's own pass, "backbone" whatever the backbone constructor set, *)
(* "none" an absent bias.                                                  *)
(***************************************************************************)
Module(owner, block, part, layer, kind, weight, bias) ==
  [owner |-> owner, block |-> block, part |-> part, layer |-> layer,
   kind |-> kind, weight |-> weight, bias |-> bias, requires_grad |-> TRUE]

Conv2d(owner, block, part, layer, bias) ==
  Module(owner, block, part, layer, "Conv2d", "kaiming_uniform",
         IF bias THEN "uniform" ELSE "none")

ConvTranspose2d(owner, block, part, layer, bias) ==
  Module(owner, block, part, layer, "ConvTranspose2d", "kaiming_uniform",
         IF bias THEN "uniform" ELSE "none")

Norm(owner, block, part, layer, norm) ==
  Module(owner, block, part, layer, norm_layer(norm), "1", "0")

\* unet.py:33-40  the Sequential of a double convolution
DoubleConv2d_modules(owner, block, part, bias, norm) ==
  << Conv2d(owner, block, part, 0, bias), Norm(owner, block, part, 1, norm),
     Conv2d(owner, block, part, 3, bias), Norm(owner, block, part, 4, norm) >>

RECURSIVE Flatten(_)
Flatten(ss) == IF ss = <<>> THEN <<>> ELSE Head(ss) \o Flatten(Tail(ss))

\* unet.py:117-121 plain encoder: one double convolution per encoder block
PlainEncoder_modules(n, bias, norm) ==
  Flatten([i \in 1..n |-> DoubleConv2d_modules("encoder", i - 1, "conv", bias, norm)])

\* the backbone network: stem conv1/bn1 and the stages layer1..layer4, each
\* stage standing for its convolutions and normalisations
Backbone_modules ==
  << Module("encoder", 0, "conv1", 0, "Conv2d", "backbone", "none"),
     Module("encoder", 0, "bn1", 0, "BatchNorm2d", "backbone", "backbone") >>
  \o Flatten([i \in 1..4 |->
        << Module("encoder", i, "layer", 0, "Conv2d", "backbone", "none"),
           Module("encoder", i, "layer", 1, "BatchNorm2d", "backbone", "backbone") >>])

\* unet.py:125-127  for param in self.encoder.parameters(): requires_grad = False
FreezeStagesOnly(mods, freeze_grad) ==
  [i \in 1..Len(mods) |->
     IF freeze_grad /\ mods[i].part = "layer"
     THEN [mods[i] EXCEPT !.requires_grad = FALSE] ELSE mods[i]]

Freeze(mods, freeze_grad) ==
  [i \in 1..Len(mods) |->
     IF freeze_grad THEN [mods[i] EXCEPT !.requires_grad = FALSE] ELSE mods[i]]

\* unet.py:86-87  a decoder block's transposed convolution and double convolution
DecoderBlock_modules(i, bias, norm) ==
  << ConvTranspose2d("decoder", i, "trans", 0, bias) >>
  \o DoubleConv2d_modules("decoder", i, "conv", bias, norm)

Decoder_modules(n, bias, norm) ==
  Flatten([i \in 1..n |-> DecoderBlock_modules(i - 1, bias, norm)])

\* unet.py:214-217  the output head's modules keep the framework default bias=True
Out_modules ==
  << ConvTranspose2d("out", 0, "out", 0, TRUE), Conv2d("out", 0, "out", 1, TRUE) >>

\* unet.py:220  the owners whose modules the initialisation pass visits
InitTargetEverything(backbone) ==
  {"encoder", "center", "decoder", "out"}

init_target(backbone) ==
  operate(backbone = None, {"encoder", "center", "decoder", "out"},
          {"center", "decoder", "out"})

NormKinds == {"BatchNorm2d", "InstanceNorm2d", "GroupNorm"}

\* unet.py:224-230  what the pass does to one visited module
InitModule(m) ==
  LET a == IF m.kind = "Conv2d"
           THEN [m EXCEPT !.weight = "kaiming_normal",
                          !.bias = IF m.bias # "none" THEN "0" ELSE "none"]
           ELSE m
  IN IF a.kind \in NormKinds THEN [a EXCEPT !.weight = "1", !.bias = "0"] ELSE a

\* unet.py:219-230
InitWeights(mods, backbone, init_weights) ==
  [i \in 1..Len(mods) |->
     IF init_weights /\ mods[i].owner \in init_target(backbone)
     THEN InitModule(mods[i]) ELSE mods[i]]

(***************************************************************************)
(* The backbone provider (resnet.py): the channel widths of its stem and   *)
(* of layer1..layer4.  "declared": the widths are the registry's sequence; *)
(* "shifted": the stem and layer1 share filters[0] and layer4 has          *)
(* filters[3] channels.                                                    *)
(***************************************************************************)
WidthChoices == {"declared", "shifted"}

Backbone_widths(filters, wsel) ==
  IF wsel = "declared" THEN filters
  ELSE <<filters[1], filters[1], filters[2], filters[3], filters[4]>>

(***************************************************************************)
(* Constructors                                                            *)
(***************************************************************************)
\* unet.py:100-134
EncoderBlocks_init(heap, reg, channels, filters, backbone, wsel, freeze_grad, bias, norm) ==
  LET mode == EncoderBlocks_mode(reg, backbone)
      fref == EncoderBlocks_filters(reg, filters, backbone)
  IN [backbone |-> IF mode = "plain" THEN None ELSE backbone,
      channels |-> channels,
      filters  |-> fref,
      encoder  |-> IF mode = "plain"
                   THEN PlainEncoderChain(channels, heap[filters], 1) ELSE <<>>,
      widths   |-> IF mode = "plain" THEN <<>> ELSE Backbone_widths(heap[fref], wsel),
      modules  |-> IF mode = "plain"
                   THEN PlainEncoder_modules(Len(heap[filters]) - 1, bias, norm)
                   ELSE Freeze(Backbone_modules, freeze_grad)]

\* unet.py:212
Center_init(filters) ==
  DoubleConv2d_init(At(filters, -2), At(filters, -1))

\* unet.py:193-230
UNet_init(heap, reg, cls, channels, num_classes, backbone, wsel, freeze_grad, bias, norm, init_weights) ==
  LET enc == EncoderBlocks_init(heap, reg, channels, cls, backbone, wsel, freeze_grad, bias, norm)
      F   == heap[enc.filters]
      dec == DecoderBlocks_init(F, enc.backbone)
      mods == enc.modules
              \o DoubleConv2d_modules("center", 0, "center", bias, norm)
              \o Decoder_modules(Len(dec), bias, norm)
              \o Out_modules
  IN [channels |-> channels, num_classes |-> num_classes,
      backbone |-> enc.backbone, freeze_grad |-> freeze_grad, bias |-> bias,
      init_weights |-> init_weights,
      filters  |-> enc.filters,
      filters0 |-> F,
      encoder  |-> enc.encoder,
      widths   |-> enc.widths,
      center   |-> Center_init(F),
      decoder  |-> dec,
      out      |-> OutHead_init(F, num_classes),
      modules  |-> InitWeights(mods, enc.backbone, init_weights)]

\* unet.py:210  self.filters = self.encoder.filters binds the instance attribute:
\* no list object is written
CopyInto(heap, target, src) == [heap EXCEPT ![target] = heap[src]]

Rebind(heap, target, src) == heap

(***************************************************************************)
(* Shape arithmetic of the forward pass.  A failed operation (the          *)
(* framework raising on a channel or size mismatch) yields a shape with    *)
(* ok = FALSE, which every later operation passes on: the exception        *)
(* propagates.  Normalisation, ReLU and dropout keep the shape and are     *)
(* left out of the arithmetic.                                             *)
(***************************************************************************)
Shape(b, c, h, w) == [ok |-> TRUE, err |-> "", b |-> b, c |-> c, h |-> h, w |-> w]

Fail(e) == [ok |-> FALSE, err |-> e, b |-> 0, c |-> 0, h |-> 0, w |-> 0]

\* nn.Conv2d, stride 1
Conv2d_forward(x, cin, cout, k, pad) ==
  IF ~x.ok THEN x
  ELSE IF x.c # cin THEN Fail("channels")
  ELSE IF x.h + 2 * pad - k + 1 < 1 \/ x.w + 2 * pad - k + 1 < 1 THEN Fail("size")
  ELSE Shape(x.b, cout, x.h + 2 * pad - k + 1, x.w + 2 * pad - k + 1)

\* nn.MaxPool2d(kernel_size=2, stride=2)
MaxPool2d_forward(x) ==
  IF ~x.ok THEN x
  ELSE IF x.h \div 2 < 1 \/ x.w \div 2 < 1 THEN Fail("size")
  ELSE Shape(x.b, x.c, x.h \div 2, x.w \div 2)

\* nn.ConvTranspose2d(kernel_size=2, stride=2)
ConvTranspose2d_forward(x, cin, cout) ==
  IF ~x.ok THEN x
  ELSE IF x.c # cin THEN Fail("channels")
  ELSE Shape(x.b, cout, (x.h - 1) * 2 + 2, (x.w - 1) * 2 + 2)

\* torch.cat([x2, x], dim=1)
cat(x2, x) ==
  IF ~x2.ok THEN x2
  ELSE IF ~x.ok THEN x
  ELSE IF x2.b # x.b \/ x2.h # x.h \/ x2.w # x.w THEN Fail("size")
  ELSE Shape(x.b, x2.c + x.c, x.h, x.w)

\* unet.py:42-43
DoubleConv2d_forward(cfg, x) ==
  Conv2d_forward(Conv2d_forward(x, cfg.in, cfg.out, kernel_size, padding),
                 cfg.out, cfg.out, kernel_size, padding)

\* unet.py:61-65
EncoderBlock_forward(blk, x) ==
  LET y == DoubleConv2d_forward(blk.conv, x)
  IN [x |-> y, p |-> MaxPool2d_forward(y)]

RECURSIVE EncoderPlain_loop(_, _, _, _)
\* unet.py:140-144
EncoderPlain_loop(blocks, k, p, x_out) ==
  IF k > Len(blocks) \/ ~p.ok THEN [x_out |-> x_out, e_out |-> p]
  ELSE LET r == EncoderBlock_forward(blocks[k], p)
       IN IF r.p.ok THEN EncoderPlain_loop(blocks, k + 1, r.p, Append(x_out, r.x))
          ELSE [x_out |-> x_out, e_out |-> r.p]

\* the backbone's stem (conv1, bn1, relu), pool and stages: the stem, the pool
\* and layer2..layer4 halve the resolution, rounding up
Half(n) == (n + 1) \div 2

Backbone_stem(x, channels, widths) ==
  IF ~x.ok THEN x
  ELSE IF x.c # channels THEN Fail("channels")
  ELSE Shape(x.b, widths[1], Half(x.h), Half(x.w))

Backbone_pool(x) ==
  IF ~x.ok THEN x ELSE Shape(x.b, x.c, Half(x.h), Half(x.w))

Backbone_layer(k, p, widths) ==
  IF ~p.ok THEN p
  ELSE IF k = 1 THEN Shape(p.b, widths[2], p.h, p.w)
  ELSE Shape(p.b, widths[k + 1], Half(p.h), Half(p.w))

RECURSIVE EncoderBackbone_loop(_, _, _, _)
\* unet.py:149-153
EncoderBackbone_loop(widths, k, p, x_out) ==
  IF k > 4 \/ ~p.ok THEN [x_out |-> x_out, e_out |-> p]
  ELSE LET q == Backbone_layer(k, p, widths)
       IN EncoderBackbone_loop(widths, k + 1, q, Append(x_out, q))

\* unet.py:136-154
EncoderBlocks_forward(m, x) ==
  IF m.backbone = None
  THEN EncoderPlain_loop(m.encoder, 1, x, <<>>)
  ELSE LET s == Backbone_stem(x, m.channels, m.widths)
       IN IF ~s.ok THEN [x_out |-> <<>>, e_out |-> s]
          ELSE EncoderBackbone_loop(m.widths, 1, Backbone_pool(s), <<s>>)

\* unet.py:90-94
DecoderBlock_up(blk, x1) == ConvTranspose2d_forward(x1, blk.up_in, blk.up_out)

DecoderBlock_forward(blk, x1, x2) ==
  DoubleConv2d_forward(blk.conv, cat(x2, DecoderBlock_up(blk, x1)))

\* unet.py:182  x_out[-1 - i], as a 1-based position in a list of n entries
SkipFromFront(n, i) == i + 1

SkipIndex(n, i) == n - i

\* unet.py:183-184  the skip is pooled in plain mode only
SkipNeverPooled(backbone, x) == x

Skip(backbone, x) ==
  IF backbone = None THEN MaxPool2d_forward(x) ELSE x

RECURSIVE Decoder_loop(_, _, _, _, _, _)
\* unet.py:181-186
Decoder_loop(blocks, backbone, x_out, d, i, log) ==
  IF i >= Len(blocks) \/ ~d.ok THEN [d |-> d, log |-> log]
  ELSE LET idx == SkipIndex(Len(x_out), i)
       IN IF idx \notin 1..Len(x_out) THEN [d |-> Fail("IndexError"), log |-> log]
          ELSE LET x == Skip(backbone, x_out[idx])
                   entry == [block |-> i, index |-> idx, pooled |-> x # x_out[idx],
                             skip |-> x, up |-> DecoderBlock_up(blocks[i + 1], d),
                             cin |-> blocks[i + 1].conv.in]
               IN Decoder_loop(blocks, backbone, x_out,
                               DecoderBlock_forward(blocks[i + 1], d, x),
                               i + 1, Append(log, entry))

\* unet.py:178-187
DecoderBlocks_forward(blocks, backbone, x_out, c) ==
  Decoder_loop(blocks, backbone, x_out, MaxPool2d_forward(c), 0, <<>>)

\* unet.py:214-217, 236
Out_forward(o, d) ==
  Conv2d_forward(ConvTranspose2d_forward(d, o.tin, o.tout), o.cin, o.cout, 1, 0)

NoForward ==
  [status |-> "none", err |-> "", at |-> "", model |-> 0, x |-> Fail(""),
   out |-> Fail(""), nskips |-> 0, enc_done |-> FALSE, e_out |-> Fail(""),
   c |-> Fail(""), x_out |-> <<>>, log |-> <<>>]

\* unet.py:232-236
UNet_forward(mi, m, x) ==
  LET enc == EncoderBlocks_forward(m, x)
      c   == DoubleConv2d_forward(m.center, enc.e_out)
      dec == DecoderBlocks_forward(m.decoder, m.backbone, enc.x_out, c)
      out == Out_forward(m.out, dec.d)
  IN [status |-> IF out.ok THEN "ok" ELSE "error",
      err |-> out.err,
      at |-> IF ~enc.e_out.ok THEN "encoder" ELSE IF ~c.ok THEN "center"
             ELSE IF ~dec.d.ok THEN "decoder" ELSE IF ~out.ok THEN "out" ELSE "",
      model |-> mi, x |-> x, out |-> out,
      nskips |-> Len(enc.x_out), enc_done |-> enc.e_out.ok, e_out |-> enc.e_out,
      c |-> c, x_out |-> enc.x_out, log |-> dec.log]

(***************************************************************************)
(* Ensemble.  A member stands for a constructed U-Net by the tensor its    *)
(* forward pass returns on the input: a flat sequence of values.  A mean   *)
(* is the exact quotient num / den.                                        *)
(***************************************************************************)
Values == {1, 5}
OutLens == {1, 2}
Inputs == {"x1", "x2"}
Tensors == UNION {[1..n -> Values] : n \in OutLens}

RECURSIVE SumAt(_, _)
SumAt(out, p) == IF out = <<>> THEN 0 ELSE Head(out)[p] + SumAt(Tail(out), p)

\* unet.py:245  [unet(x) for unet in self.unet_models]
MemberCalls(ms, x) ==
  [i \in 1..Len(ms) |-> [member |-> i, x |-> x, out |-> ms[i].out]]

\* torch.stack(out): needs a non-empty list of equally shaped tensors
stack(out) ==
  IF out = <<>> THEN [ok |-> FALSE, t |-> <<>>]
  ELSE IF \E i \in 1..Len(out) : Len(out[i]) # Len(out[1]) THEN [ok |-> FALSE, t |-> <<>>]
  ELSE [ok |-> TRUE, t |-> out]

\* torch.mean(stacked, dim=0)
SumOverAxis(t) ==
  [p \in 1..Len(t[1]) |-> [num |-> SumAt(t, p), den |-> 1]]

mean(t) ==
  [p \in 1..Len(t[1]) |-> [num |-> SumAt(t, p), den |-> Len(t)]]

NoEnsembleObject == [built |-> FALSE, unet_models |-> <<>>]

NoEnsemble == [status |-> "none", x |-> "", calls |-> <<>>, out |-> <<>>]

\* unet.py:244-246
EnsembleUNet_forward(ms, x) ==
  LET calls == MemberCalls(ms, x)
      st == stack([i \in 1..Len(calls) |-> calls[i].out])
  IN [status |-> IF st.ok THEN "ok" ELSE "error", x |-> x, calls |-> calls,
      out |-> IF st.ok THEN mean(st.t) ELSE <<>>]

(***************************************************************************)
(* State machine                                                           *)
(***************************************************************************)
NoCall == [op |-> "none", backbone |-> None, raised |-> "", models_before |-> 0,
           encs_before |-> 0]

Init ==
  /\ lists = InitialHeap
  /\ backbones = [n \in BackboneNames |-> n]
  /\ UNet_filters = ClassList
  /\ models = <<>>
  /\ encs = <<>>
  /\ call = NoCall
  /\ fwd = NoForward
  /\ ensemble = NoEnsembleObject
  /\ ens = NoEnsemble

\* UNet(channels, num_classes, backbone, pretrained, freeze_grad, kernel_size,
\*      bias, norm, dropout, init_weights)
Construct(channels, num_classes, backbone, wsel, freeze_grad, bias, init_weights) ==
  /\ Len(models) < MaxModels
  /\ call' = [op |-> "UNet", backbone |-> backbone,
              raised |-> IF EncoderBlocks_mode(backbones, backbone) = "KeyError"
                         THEN "KeyError" ELSE "",
              models_before |-> Len(models), encs_before |-> Len(encs)]
  /\ IF EncoderBlocks_mode(backbones, backbone) = "KeyError"
     THEN UNCHANGED <<models, lists>>
     ELSE LET m == UNet_init(lists, backbones, UNet_filters, channels, num_classes,
                             backbone, wsel, freeze_grad, bias, None, init_weights)
          IN /\ models' = Append(models, m)
             /\ lists' = Rebind(lists, UNet_filters, m.filters)
  /\ UNCHANGED <<backbones, UNet_filters, encs, fwd, ensemble, ens>>

\* EncoderBlocks(channels, filters, backbone, ...) constructed on its own
ConstructEncoder(channels, backbone, wsel, freeze_grad, bias) ==
  /\ Len(encs) < MaxEncs
  /\ call' = [op |-> "EncoderBlocks", backbone |-> backbone,
              raised |-> IF EncoderBlocks_mode(backbones, backbone) = "KeyError"
                         THEN "KeyError" ELSE "",
              models_before |-> Len(models), encs_before |-> Len(encs)]
  /\ IF EncoderBlocks_mode(backbones, backbone) = "KeyError"
     THEN UNCHANGED encs
     ELSE encs' = Append(encs, EncoderBlocks_init(lists, backbones, channels,
                          UNet_filters, backbone, wsel, freeze_grad, bias, None))
  /\ UNCHANGED <<lists, backbones, UNet_filters, models, fwd, ensemble, ens>>

InputSizes == {16 * k : k \in 1..MaxMult}

\* model(x) on an input of shape (b, c, h, w)
Forward(mi, b, c, h, w) ==
  /\ mi \in 1..Len(models)
  /\ fwd' = UNet_forward(mi, models[mi], Shape(b, c, h, w))
  /\ UNCHANGED <<lists, backbones, UNet_filters, models, encs, call, ensemble, ens>>

\* EnsembleUNet(unet_models)
ConstructEnsemble(ms) ==
  /\ ~ensemble.built
  /\ ensemble' = [built |-> TRUE, unet_models |-> ms]
  /\ UNCHANGED <<lists, backbones, UNet_filters, models, encs, call, fwd, ens>>

\* ensemble(x)
EnsembleForward(x) ==
  /\ ensemble.built
  /\ ens' = EnsembleUNet_forward(ensemble.unet_models, x)
  /\ UNCHANGED <<lists, backbones, UNet_filters, models, encs, call, fwd, ensemble>>

(* Constructions in any order and mix of modes *)
NewUNet ==
  \E backbone \in BackboneArgs :
    Construct(3, 2, backbone, "declared", FALSE, FALSE, TRUE)

NewEncoderBlocks ==
  \E backbone \in BackboneArgs :
    ConstructEncoder(3, backbone, "declared", FALSE, FALSE)

Next == NewUNet \/ NewEncoderBlocks

Spec == Init /\ [][Next]_vars

(* One construction over every flag *)
NewUNetAnyFlags ==
  /\ models = <<>>
  /\ \E channels \in ChannelChoices, num_classes \in ClassChoices,
        backbone \in BackboneArgs, freeze_grad \in BOOLEAN, bias \in BOOLEAN,
        init_weights \in BOOLEAN :
       Construct(channels, num_classes, backbone, "declared", freeze_grad, bias,
                 init_weights)

NextInit == NewUNetAnyFlags

SpecInit == Init /\ [][NextInit]_vars

(* One construction, then forward passes *)
NewUNetForForward ==
  /\ models = <<>>
  /\ \E channels \in ChannelChoices, num_classes \in ClassChoices,
        backbone \in BackboneNames \cup {None}, wsel \in WidthChoices :
       Construct(channels, num_classes, backbone, wsel, FALSE, FALSE, TRUE)

RunForward ==
  \E mi \in 1..Len(models), b \in {1, 2}, c \in ChannelChoices,
     h \in InputSizes, w \in InputSizes :
    Forward(mi, b, c, h, w)

NextFwd == NewUNetForForward \/ RunForward

SpecFwd == Init /\ [][NextFwd]_vars

(* An ensemble and its forward passes *)
NewEnsemble ==
  \E k \in 0..MaxK : \E outs \in [1..k -> Tensors] :
    ConstructEnsemble([i \in 1..k |-> [out |-> outs[i]]])

RunEnsemble == \E x \in Inputs : EnsembleForward(x)

NextEns == NewEnsemble \/ RunEnsemble

SpecEns == Init /\ [][NextEns]_vars

(***************************************************************************)
(* Properties                                                              *)
(***************************************************************************)
FwdModel == models[fwd.model]

BackboneForwardChannels ==
  (/\ fwd.status # "none"
   /\ FwdModel.backbone # None
   /\ FwdModel.widths = lists[FwdModel.filters]
   /\ fwd.x.c = FwdModel.channels)
  => /\ fwd.enc_done
     /\ fwd.e_out.c = FwdModel.center.in
     /\ fwd.err # "channels"
     /\ \A i \in 1..Len(fwd.log) :
          (fwd.log[i].skip.ok /\ fwd.log[i].up.ok)
            => fwd.log[i].skip.c + fwd.log[i].up.c = fwd.log[i].cin
     /\ (fwd.status = "ok" => fwd.out.c = FwdModel.num_classes)

AllConvBiasZero ==
  \A mi \in 1..Len(models) :
    (models[mi].backbone = None /\ models[mi].init_weights)
    => \A j \in 1..Len(models[mi].modules) :
         LET m == models[mi].modules[j]
         IN /\ (m.kind \in {"Conv2d", "ConvTranspose2d"} /\ m.bias # "none")
                 => m.bias = "0"
            /\ m.kind \in NormKinds => (m.weight = "1" /\ m.bias = "0")

IsEncoderOwned(m) == m.owner = "encoder"

\* C4: constructing with init_weights and a backbone writes no parameter of a
\* module owned by the encoder stack (the backbone, its stem included): they
\* are as the backbone constructor left them.
BackboneUntouched ==
  \A mi \in 1..Len(models) :
    (models[mi].backbone # None /\ models[mi].init_weights)
    => LET own == SelectSeq(models[mi].modules, IsEncoderOwned)
       IN /\ Len(own) = Len(Backbone_modules)
          /\ \A j \in 1..Len(own) :
               /\ own[j].weight = "backbone"
               /\ own[j].bias = Backbone_modules[j].bias
               /\ own[j].part = Backbone_modules[j].part

BackboneInitialised ==
  /\ Len(models) = 1
  /\ models[1].backbone = "resnet50"
  /\ models[1].init_weights
  /\ \E j \in 1..Len(models[1].modules) :
       /\ models[1].modules[j].owner = "center"
       /\ models[1].modules[j].weight = "kaiming_normal"

\* C5: after constructing a backbone-mode U-Net with freeze_grad, every
\* parameter of the backbone (stem included) is non-trainable and every
\* parameter of the center block, decoder stack and output head is trainable.
FrozenBackbone ==
  \A mi \in 1..Len(models) :
    (models[mi].backbone # None /\ models[mi].freeze_grad)
    => \A j \in 1..Len(models[mi].modules) :
         models[mi].modules[j].requires_grad
           = (models[mi].modules[j].owner # "encoder")

BackboneFrozen ==
  /\ Len(models) = 1
  /\ models[1].backbone = "resnet18"
  /\ models[1].freeze_grad
  /\ \E j \in 1..Len(models[1].modules) :
       models[1].modules[j].part = "conv1" /\ ~models[1].modules[j].requires_grad

\* C6: a U-Net built with a registry name has the registry's sequence for
\* that name as its filters ([64,128,256,512,1024] for resnet18/34,
\* [64,256,512,1024,2048] for resnet50/101/152), a plain one the default
\* [64,128,256,512,1024]; center, decoder stack and output head are built
\* from that sequence.
FiltersFromRegistry ==
  \A mi \in 1..Len(models) :
    LET m == models[mi]
        F == lists[m.filters]
    IN /\ F = IF m.backbone \in {"resnet50", "resnet101", "resnet152"}
              THEN <<64, 256, 512, 1024, 2048>>
              ELSE <<64, 128, 256, 512, 1024>>
       /\ m.center = [in |-> F[4], out |-> F[5]]
       /\ Len(m.decoder) = IF m.backbone = None THEN 4 ELSE 5
       /\ \A i \in 1..4 :
            m.decoder[i] = [up_in |-> F[6 - i], up_out |-> F[5 - i],
                            conv |-> [in |-> F[6 - i], out |-> F[5 - i]]]
       /\ m.backbone # None
            => m.decoder[5] = [up_in |-> F[1], up_out |-> F[1],
                               conv |-> [in |-> F[2], out |-> F[1]]]
       /\ m.out = [tin |-> F[1], tout |-> F[1], cin |-> F[1],
                   cout |-> m.num_classes]

WideBackboneBuilt ==
  /\ Len(models) >= 1
  /\ models[1].backbone = "resnet101"
  /\ models[1].center.out = 2048

\* C8: constructing an encoder stack or a U-Net with a backbone name that is
\* neither None nor a registry key raises KeyError; nothing is built in its
\* place.
UnknownBackboneRaises ==
  /\ (call.op # "none" /\ call.backbone \notin BackboneNames \cup {None})
     => /\ call.raised = "KeyError"
        /\ Len(models) = call.models_before
        /\ Len(encs) = call.encs_before
  /\ \A mi \in 1..Len(models) : models[mi].backbone \in BackboneNames \cup {None}
  /\ \A ei \in 1..Len(encs) : encs[ei].backbone \in BackboneNames \cup {None}

UnknownBackboneRaised ==
  /\ call.op = "UNet"
  /\ call.backbone = UnknownName
  /\ call.raised = "KeyError"
  /\ Len(models) = 1

\* C10: after any sequence of constructions the class-level default is still
\* [64,128,256,512,1024], every registry entry holds its declared sequence,
\* no constructed instance's filters have changed, and a plain-mode instance
\* uses the default.
DefaultsPreserved ==
  /\ lists[UNet_filters] = <<64, 128, 256, 512, 1024>>
  /\ \A n \in {"resnet18", "resnet34"} :
       lists[backbones[n]] = <<64, 128, 256, 512, 1024>>
  /\ \A n \in {"resnet50", "resnet101", "resnet152"} :
       lists[backbones[n]] = <<64, 256, 512, 1024, 2048>>
  /\ \A mi \in 1..Len(models) :
       /\ lists[models[mi].filters] = models[mi].filters0
       /\ models[mi].backbone = None
            => lists[models[mi].filters] = <<64, 128, 256, 512, 1024>>

PlainAfterWide ==
  /\ Len(models) = 2
  /\ models[1].backbone = "resnet50"
  /\ models[2].backbone = None
  /\ models[2].center.out = 1024

RECURSIVE Total(_, _, _)
Total(ms, p, k) == IF k = 0 THEN 0 ELSE ms[k].out[p] + Total(ms, p, k - 1)

\* C7: an ensemble of K >= 1 members with equally shaped outputs calls every
\* member once, in list order, on the given input, and returns at every
\* position the arithmetic mean of the K member outputs there.
EnsembleMean ==
  LET ms == ensemble.unet_models
      K == Len(ms)
  IN (/\ ens.status # "none"
      /\ K >= 1
      /\ \A i \in 1..K : Len(ms[i].out) = Len(ms[1].out))
     => /\ ens.status = "ok"
        /\ Len(ens.calls) = K
        /\ \A i \in 1..K : ens.calls[i].member = i /\ ens.calls[i].x = ens.x
        /\ Len(ens.out) = Len(ms[1].out)
        /\ \A p \in 1..Len(ens.out) :
             /\ ens.out[p].den > 0
             /\ ens.out[p].num * K = ens.out[p].den * Total(ms, p, K)

EnsembleAveraged ==
  /\ ens.status = "ok"
  /\ Len(ensemble.unet_models) = 3
  /\ ensemble.unet_models[1].out = <<1, 5>>
  /\ ensemble.unet_models[2].out = <<5, 5>>
  /\ ensemble.unet_models[3].out = <<1, 1>>
  /\ Len(ens.calls) = 3
  /\ ens.out = <<[num |-> 7, den |-> 3], [num |-> 11, den |-> 3]>>

====
